---- MODULE Spec2Model ----
(***************************************************************************)
(* Model of the QR compatibility matrix engine of 13rac1/qr-benchmarks:    *)
(* the matrix Runner (RunAll / runTest), the encoder and decoder adapters  *)
(* it drives, and the statistics aggregator (computeEncoderStats,          *)
(* computeDecoderStats, computeCombinations, computeSummary).              *)
(*                                                                         *)
(* Spec is the qr-tester run: a Runner is constructed and RunAll executes. *)
(* AggSpec is the aggregator binary: a list of RawTestResult records is    *)
(* loaded and the compute* functions are applied to it.  PipeSpec joins    *)
(* the two through the JSON reporter and loadAllResults.  MonoSpec,        *)
(* GeoSpec and GenSpec call hasNonMonotonicFailures, the module geometry   *)
(* functions and the test-data generators on their own.                    *)
(***************************************************************************)
EXTENDS Integers, Sequences, FiniteSets, TLC

VARIABLES
    Encoders,      \* Runner.Encoders
    Decoders,      \* Runner.Decoders
    TestCases,     \* Runner.TestCases
    Config,        \* Runner.Config
    pc,            \* position of RunAll
    ti, ei, di,    \* loop positions of RunAll (test case, encoder, decoder)
    results,       \* RunAll's local results slice
    result,        \* runTest's local result, between Encode and Decode
    img,           \* runTest's local img
    ret,           \* what RunAll returned: [matrix, err]
    resultTriple,  \* history: the triple each entry of results was run for
    encodeCalls,   \* history: the triple of every Encode call made, in order
    decodeCalls,   \* history: the triple of every Decode call made, in order
    faultAt,       \* history: triples whose wrapped library panicked
    elapsed,       \* time the pending Decode call has been running
    raw,           \* aggregator: the loaded []RawTestResult
    apc,           \* aggregator: position of main
    encoderStats,  \* aggregator: computeEncoderStats(results)
    decoderStats,  \* aggregator: computeDecoderStats(results)
    combinations,  \* aggregator: computeCombinations(results)
    summary,       \* aggregator: computeSummary(results, ...)
    failures,      \* aggregator: computeFailures(results)
    files,         \* the results/encoders directory: file name -> records written
    arg,           \* a call of a function on its own: the function and its arguments
    out            \* what that call returned

runnerVars == <<Encoders, Decoders, TestCases, Config, pc, ti, ei, di, results,
                result, img, ret, resultTriple, encodeCalls, decodeCalls,
                faultAt, elapsed>>
aggVars == <<raw, apc, encoderStats, decoderStats, combinations, summary,
             failures, files>>
fnVars == <<arg, out>>
vars == <<runnerVars, aggVars, fnVars>>

---------------------------------------------------------------------------
(* Bounds of the model *)

MaxEncoders == 2
MaxDecoders == 2
MaxCases == 2
MaxRaw == 3
\* results handed to one hasNonMonotonicFailures call
MaxGroup == 4
\* the arguments the geometry functions are called with on their own
MaxVersionArg == 42
MaxModuleArg == 120
MaxQuietArg == 4
MaxPixelArg == 30
\* the largest size a payload generator is called with on its own
MaxGenSize == 40

\* Config.Timeout, in ticks of the model's clock
TimeoutTicks == 2

---------------------------------------------------------------------------
(* Values *)

Nil == [tag |-> "nil"]

QuietZoneModules == 4

ErrorCorrectionM == "M"


---------------------------------------------------------------------------
(* Adapters.  An adapter value carries its Name and the behaviour of the   *)
(* library it wraps (lib), which is outside the repository.                *)

EncoderRegistry ==
    <<"skip2/go-qrcode", "boombuler/barcode", "yeqown/go-qrcode", "gozxing/encoder">>

DecoderRegistry ==
    <<"makiuchi-d/gozxing", "tuotoo/qrcode", "goqr", "goquirc">>

\* what a wrapped encoder library can do with a non-empty payload
EncoderLibs == {"ok", "capacity", "fail", "panic"}

\* what a wrapped decoder library can do with an image
DecoderLibs == {"faithful", "corrupt", "truncate", "fail", "panic", "hang"}

\* the decoder adapters whose Decode defers a recover()
DecoderRecovers(name) == name \in {"tuotoo/qrcode", "goquirc"}

\* the encoder adapters whose Encode defers a recover(): none does
EncoderRecovers(name) == FALSE

CapacityMsg == "content too long to encode"

\* Encoder.Encode: the adapter's own checks, then the wrapped library
Encode(enc, data, opts) ==
    IF Len(data) = 0
    THEN [status |-> "err", err |-> "cannot encode empty data", img |-> Nil]
    ELSE CASE enc.lib = "ok" ->
                [status |-> "ok", err |-> "",
                 img |-> [data |-> data, PixelSize |-> opts.PixelSize,
                          ErrorCorrectionLevel |-> opts.ErrorCorrectionLevel]]
           [] enc.lib = "capacity" ->
                [status |-> "err", err |-> CapacityMsg, img |-> Nil]
           [] enc.lib = "fail" ->
                [status |-> "err", err |-> "encode failed", img |-> Nil]
           [] enc.lib = "panic" ->
                IF EncoderRecovers(enc.Name)
                THEN [status |-> "err", err |-> "panic during encode", img |-> Nil]
                ELSE [status |-> "panic", err |-> "", img |-> Nil]

\* Encoder.IsCapacityError
IsCapacityError(enc, err) == err # "" /\ err = CapacityMsg

\* the bytes a misreading library returns: same length, other content
Corrupt(data) == [i \in 1..Len(data) |-> (data[i] + 1) % 256]

\* the bytes a library returns that loses the tail of the payload
Truncate(data) == SubSeq(data, 1, Len(data) - 1)

\* Decoder.Decode: the adapter's own checks, then the wrapped library
Decode(dec, image) ==
    IF image = Nil
    THEN [status |-> "err", err |-> "image is nil", data |-> <<>>]
    ELSE CASE dec.lib = "faithful" ->
                [status |-> "ok", err |-> "", data |-> image.data]
           [] dec.lib = "corrupt" ->
                [status |-> "ok", err |-> "", data |-> Corrupt(image.data)]
           [] dec.lib = "truncate" ->
                [status |-> "ok", err |-> "", data |-> Truncate(image.data)]
           [] dec.lib = "fail" ->
                [status |-> "err", err |-> "decode failed", data |-> <<>>]
           [] dec.lib = "panic" ->
                IF DecoderRecovers(dec.Name)
                THEN [status |-> "err", err |-> "panic during decode", data |-> <<>>]
                ELSE [status |-> "panic", err |-> "", data |-> <<>>]
           [] dec.lib = "hang" ->
                [status |-> "hang", err |-> "", data |-> <<>>]

---------------------------------------------------------------------------
(* Geometry calculator *)

\* DetectQRVersion: the placeholder always reports "not yet implemented"
DetectQRVersion(image) == [version |-> -1, err |-> TRUE]

\* CalculateModuleCount that forgets the upper end of the version range
CalculateModuleCount_NoUpperEnd(version) ==
    IF version < 1 THEN 0 ELSE 17 + 4 * version

CalculateModuleCount(version) ==
    IF version < 1 \/ version > 40 THEN 0 ELSE 17 + 4 * version

\* CalculateModulePixelSize that divides the integers before converting
CalculateModulePixelSize_Truncated(pixelSize, moduleCount, quietZone) ==
    IF pixelSize <= 0 \/ moduleCount <= 0 \/ quietZone < 0
    THEN [num |-> 0, den |-> 1]
    ELSE [num |-> pixelSize \div (moduleCount + quietZone), den |-> 1]

\* a float64 quotient is kept as the exact fraction num/den
CalculateModulePixelSize(pixelSize, moduleCount, quietZone) ==
    IF pixelSize <= 0 \/ moduleCount <= 0 \/ quietZone < 0
    THEN [num |-> 0, den |-> 1]
    ELSE [num |-> pixelSize, den |-> moduleCount + quietZone]

IsFractionalModuleSize(modulePixelSize) ==
    modulePixelSize.num % modulePixelSize.den # 0

\* CalculateOptimalPixelSize that rounds the multiplier down
CalculateOptimalPixelSize_RoundedDown(moduleCount, quietZone) ==
    IF moduleCount <= 0 \/ quietZone < 0
    THEN 0
    ELSE LET totalModules == moduleCount + quietZone
             minSize == 100
             multiplier == minSize \div totalModules
         IN totalModules * multiplier

\* CalculateOptimalPixelSize that always takes the multiple after minSize
CalculateOptimalPixelSize_NextMultiple(moduleCount, quietZone) ==
    IF moduleCount <= 0 \/ quietZone < 0
    THEN 0
    ELSE LET totalModules == moduleCount + quietZone
             minSize == 100
             multiplier == (minSize \div totalModules) + 1
         IN totalModules * multiplier

CalculateOptimalPixelSize(moduleCount, quietZone) ==
    IF moduleCount <= 0 \/ quietZone < 0
    THEN 0
    ELSE LET totalModules == moduleCount + quietZone
             minSize == 100
             multiplier == (minSize + totalModules - 1) \div totalModules
         IN totalModules * multiplier

---------------------------------------------------------------------------
(* Test cases *)

ContentNumeric == 0
ContentAlphanumeric == 1
ContentBinary == 2
ContentUTF8 == 3

contentTypeToString(ct) ==
    CASE ct = ContentNumeric -> "numeric"
      [] ct = ContentAlphanumeric -> "alphanumeric"
      [] ct = ContentBinary -> "binary"
      [] ct = ContentUTF8 -> "utf8"
      [] OTHER -> "unknown"

\* The test cases the generator hands to NewRunner, in a fixed order: a UTF-8
\* case whose payload lost a split character (generateUTF8 returns fewer bytes
\* than DataSize), the empty and the single-byte edge cases, an alphanumeric
\* case.
CaseList ==
    << [Data |-> <<72, 105>>, DataSize |-> 3, PixelSize |-> 270,
        ContentType |-> ContentUTF8, ErrorCorrectionLevel |-> "H"],
       [Data |-> <<>>, DataSize |-> 0, PixelSize |-> 480,
        ContentType |-> ContentBinary, ErrorCorrectionLevel |-> "M"],
       [Data |-> <<66>>, DataSize |-> 1, PixelSize |-> 480,
        ContentType |-> ContentBinary, ErrorCorrectionLevel |-> "M"],
       [Data |-> <<65>>, DataSize |-> 1, PixelSize |-> 264,
        ContentType |-> ContentAlphanumeric, ErrorCorrectionLevel |-> "L"] >>

Min(a, b) == IF a < b THEN a ELSE b

\* the test-case lists a Runner is built with: the first k generated cases
CaseLists == { SubSeq(CaseList, 1, k) : k \in 0..Min(MaxCases, Len(CaseList)) }

\* the first n adapters of a registry, each wrapping a library of some behaviour
Adapters(registry, libs, n) ==
    { [i \in 1..n |-> [Name |-> registry[i], lib |-> l[i]]] : l \in [1..n -> libs] }

---------------------------------------------------------------------------
(* Runner *)

\* a sequential configuration and the parallel one of DefaultConfig
ConfigUniverse ==
    { [Parallel |-> FALSE, MaxWorkers |-> 1, Timeout |-> TimeoutTicks],
      [Parallel |-> TRUE, MaxWorkers |-> 4, Timeout |-> TimeoutTicks] }

Triples == (1..Len(TestCases)) \X (1..Len(Encoders)) \X (1..Len(Decoders))

NoStats == [tag |-> "none"]

\* the results directory before any report was written
NoFiles == [encoders |-> [f \in {} |-> <<>>], decoders |-> [f \in {} |-> <<>>]]

\* no function is called on its own
NoCall == arg = Nil /\ out = Nil

\* the aggregator is not running
AggIdle ==
    /\ raw = <<>>
    /\ apc = "idle"
    /\ encoderStats = NoStats
    /\ decoderStats = NoStats
    /\ combinations = NoStats
    /\ summary = NoStats
    /\ failures = NoStats
    /\ files = NoFiles

\* NewRunner
Init ==
    /\ \E n \in 0..MaxEncoders : Encoders \in Adapters(EncoderRegistry, EncoderLibs, n)
    /\ \E m \in 0..MaxDecoders : Decoders \in Adapters(DecoderRegistry, DecoderLibs, m)
    /\ TestCases \in CaseLists
    /\ Config \in ConfigUniverse
    /\ pc = "start"
    /\ ti = 0 /\ ei = 0 /\ di = 0
    /\ results = <<>>
    /\ result = Nil
    /\ img = Nil
    /\ ret = Nil
    /\ resultTriple = <<>>
    /\ encodeCalls = <<>>
    /\ decodeCalls = <<>>
    /\ faultAt = {}
    /\ elapsed = 0
    /\ AggIdle
    /\ NoCall

\* RunAllBegin without the test-case check: the loops then run zero times
RunAllBegin_NoCaseCheck ==
    /\ pc = "start"
    /\ IF Len(Encoders) = 0
       THEN /\ ret' = [matrix |-> Nil, err |-> "no encoders provided"]
            /\ pc' = "returned"
       ELSE IF Len(Decoders) = 0
       THEN /\ ret' = [matrix |-> Nil, err |-> "no decoders provided"]
            /\ pc' = "returned"
       ELSE IF Len(TestCases) = 0
       THEN /\ ret' = [matrix |-> [Results |-> <<>>,
                                   Encoders |-> [i \in 1..Len(Encoders) |-> Encoders[i].Name],
                                   Decoders |-> [i \in 1..Len(Decoders) |-> Decoders[i].Name],
                                   DataSizes |-> <<>>,
                                   PixelSizes |-> <<>>],
                       err |-> ""]
            /\ pc' = "returned"
       ELSE /\ ret' = ret
            /\ pc' = "run"
    /\ ti' = IF pc' = "run" THEN 1 ELSE ti
    /\ ei' = IF pc' = "run" THEN 1 ELSE ei
    /\ di' = IF pc' = "run" THEN 1 ELSE di
    /\ UNCHANGED <<Encoders, Decoders, TestCases, Config, results, result, img,
                   resultTriple, encodeCalls, decodeCalls, faultAt, elapsed>>
    /\ UNCHANGED <<aggVars, fnVars>>

\* RunAll, up to the first runTest: the three emptiness checks
RunAllBegin ==
    /\ pc = "start"
    /\ IF Len(Encoders) = 0
       THEN /\ ret' = [matrix |-> Nil, err |-> "no encoders provided"]
            /\ pc' = "returned"
       ELSE IF Len(Decoders) = 0
       THEN /\ ret' = [matrix |-> Nil, err |-> "no decoders provided"]
            /\ pc' = "returned"
       ELSE IF Len(TestCases) = 0
       THEN /\ ret' = [matrix |-> Nil, err |-> "no test cases provided"]
            /\ pc' = "returned"
       ELSE /\ ret' = ret
            /\ pc' = "run"
    /\ ti' = IF pc' = "run" THEN 1 ELSE ti
    /\ ei' = IF pc' = "run" THEN 1 ELSE ei
    /\ di' = IF pc' = "run" THEN 1 ELSE di
    /\ UNCHANGED <<Encoders, Decoders, TestCases, Config, results, result, img,
                   resultTriple, encodeCalls, decodeCalls, faultAt, elapsed>>
    /\ UNCHANGED <<aggVars, fnVars>>

\* the loop step of AppendAndAdvance, shared by its variants
NextTriple ==
    IF di < Len(Decoders)
    THEN /\ di' = di + 1
         /\ UNCHANGED <<ei, ti>>
         /\ pc' = "run"
    ELSE IF ei < Len(Encoders)
    THEN /\ di' = 1
         /\ ei' = ei + 1
         /\ UNCHANGED ti
         /\ pc' = "run"
    ELSE IF ti < Len(TestCases)
    THEN /\ di' = 1
         /\ ei' = 1
         /\ ti' = ti + 1
         /\ pc' = "run"
    ELSE /\ UNCHANGED <<ti, ei, di>>
         /\ pc' = "collect"

\* AppendAndAdvance that keeps only the results of triples that did not fail
AppendAndAdvance_DropFailures(res) ==
    /\ results' = IF res.Error = Nil THEN Append(results, res) ELSE results
    /\ resultTriple' = IF res.Error = Nil
                       THEN Append(resultTriple, <<ti, ei, di>>) ELSE resultTriple
    /\ result' = Nil
    /\ img' = Nil
    /\ NextTriple

\* AppendAndAdvance whose encoder loop does not restart the decoder loop
AppendAndAdvance_NoRestart(res) ==
    /\ results' = Append(results, res)
    /\ resultTriple' = Append(resultTriple, <<ti, ei, di>>)
    /\ result' = Nil
    /\ img' = Nil
    /\ IF di < Len(Decoders)
       THEN /\ di' = di + 1
            /\ UNCHANGED <<ei, ti>>
            /\ pc' = "run"
       ELSE IF ei < Len(Encoders)
       THEN /\ di' = di
            /\ ei' = ei + 1
            /\ UNCHANGED ti
            /\ pc' = "run"
       ELSE IF ti < Len(TestCases)
       THEN /\ di' = 1
            /\ ei' = 1
            /\ ti' = ti + 1
            /\ pc' = "run"
       ELSE /\ UNCHANGED <<ti, ei, di>>
            /\ pc' = "collect"

\* RunAll's three nested loops: append the result and move to the next triple
AppendAndAdvance(res) ==
    /\ results' = Append(results, res)
    /\ resultTriple' = Append(resultTriple, <<ti, ei, di>>)
    /\ result' = Nil
    /\ img' = Nil
    /\ IF di < Len(Decoders)
       THEN /\ di' = di + 1
            /\ UNCHANGED <<ei, ti>>
            /\ pc' = "run"
       ELSE IF ei < Len(Encoders)
       THEN /\ di' = 1
            /\ ei' = ei + 1
            /\ UNCHANGED ti
            /\ pc' = "run"
       ELSE IF ti < Len(TestCases)
       THEN /\ di' = 1
            /\ ei' = 1
            /\ ti' = ti + 1
            /\ pc' = "run"
       ELSE /\ UNCHANGED <<ti, ei, di>>
            /\ pc' = "collect"

\* NewTestResult that starts with the capacity flag set
NewTestResult_CapacitySet(testCase, enc, dec) ==
    [EncoderName |-> enc.Name,
     DecoderName |-> dec.Name,
     DataSize |-> testCase.DataSize,
     PixelSize |-> testCase.PixelSize,
     ContentType |-> contentTypeToString(testCase.ContentType),
     ErrorCorrectionLevel |-> "",
     QRVersion |-> -1,
     ModuleCount |-> 0,
     ModulePixelSize |-> [num |-> 0, den |-> 1],
     IsFractionalModule |-> FALSE,
     EncodeTime |-> 0,
     DecodeTime |-> 0,
     Error |-> Nil,
     IsCapacityExceeded |-> TRUE]

\* runTest: the TestResult it starts from
NewTestResult(testCase, enc, dec) ==
    [EncoderName |-> enc.Name,
     DecoderName |-> dec.Name,
     DataSize |-> testCase.DataSize,
     PixelSize |-> testCase.PixelSize,
     ContentType |-> contentTypeToString(testCase.ContentType),
     ErrorCorrectionLevel |-> "",
     QRVersion |-> -1,
     ModuleCount |-> 0,
     ModulePixelSize |-> [num |-> 0, den |-> 1],
     IsFractionalModule |-> FALSE,
     EncodeTime |-> 0,
     DecodeTime |-> 0,
     Error |-> Nil,
     IsCapacityExceeded |-> FALSE]

\* runTest: the options it passes to Encode
EncodeOptionsFor(testCase) ==
    [ErrorCorrectionLevel |-> ErrorCorrectionM, PixelSize |-> testCase.PixelSize]

\* EncodeFailure that does not ask the encoder whether the error is a capacity error
EncodeFailure_NoCapacity(res, enc, err) ==
    [res EXCEPT !.Error = [tag |-> "EncodeError", Err |-> err]]

\* runTest: the branch taken when Encode returned err
EncodeFailure(res, enc, err) ==
    [res EXCEPT !.Error = [tag |-> "EncodeError", Err |-> err],
                !.IsCapacityExceeded = IsCapacityError(enc, err)]

\* ProbeGeometry that stores a zero version when detection failed
ProbeGeometry_ZeroVersion(res, testCase, image) ==
    LET v == DetectQRVersion(image)
        moduleCount == CalculateModuleCount(v.version)
        modulePixelSize ==
            CalculateModulePixelSize(testCase.PixelSize, moduleCount, QuietZoneModules)
    IN IF ~v.err /\ v.version > 0
       THEN [res EXCEPT !.QRVersion = v.version,
                        !.ModuleCount = moduleCount,
                        !.ModulePixelSize = modulePixelSize,
                        !.IsFractionalModule = IsFractionalModuleSize(modulePixelSize)]
       ELSE [res EXCEPT !.QRVersion = 0]

\* runTest: the version probe between Encode and Decode
ProbeGeometry(res, testCase, image) ==
    LET v == DetectQRVersion(image)
        moduleCount == CalculateModuleCount(v.version)
        modulePixelSize ==
            CalculateModulePixelSize(testCase.PixelSize, moduleCount, QuietZoneModules)
    IN IF ~v.err /\ v.version > 0
       THEN [res EXCEPT !.QRVersion = v.version,
                        !.ModuleCount = moduleCount,
                        !.ModulePixelSize = modulePixelSize,
                        !.IsFractionalModule = IsFractionalModuleSize(modulePixelSize)]
       ELSE res

\* DecodeFailure that leaves the result's Error unset
DecodeFailure_Unrecorded(res, err) == res

\* runTest: the branch taken when Decode returned err
DecodeFailure(res, err) ==
    [res EXCEPT !.Error = [tag |-> "DecodeError", Err |-> err]]

\* Validate that compares the lengths only
Validate_LengthOnly(res, testCase, decodedData) ==
    IF Len(testCase.Data) # Len(decodedData)
    THEN [res EXCEPT !.Error = [tag |-> "DataMismatchError",
                                Expected |-> Len(testCase.Data),
                                Got |-> Len(decodedData)]]
    ELSE [res EXCEPT !.Error = Nil]

\* Validate that reports the declared DataSize as the expected length
Validate_DeclaredSize(res, testCase, decodedData) ==
    IF testCase.Data # decodedData
    THEN [res EXCEPT !.Error = [tag |-> "DataMismatchError",
                                Expected |-> testCase.DataSize,
                                Got |-> Len(decodedData)]]
    ELSE [res EXCEPT !.Error = Nil]

\* runTest: the comparison of the decoded bytes with the payload
Validate(res, testCase, decodedData) ==
    IF testCase.Data # decodedData
    THEN [res EXCEPT !.Error = [tag |-> "DataMismatchError",
                                Expected |-> Len(testCase.Data),
                                Got |-> Len(decodedData)]]
    ELSE [res EXCEPT !.Error = Nil]

\* runTest for the current triple, and the loop step of RunAll that follows
\* it: Encode, the version probe, Decode, the comparison.  A panic that no
\* adapter recovers unwinds RunAll; a Decode that does not return leaves
\* runTest inside the call.
RunTest ==
    /\ pc = "run"
    /\ LET testCase == TestCases[ti]
           enc == Encoders[ei]
           dec == Decoders[di]
           e == Encode(enc, testCase.Data, EncodeOptionsFor(testCase))
           encoded == [NewTestResult(testCase, enc, dec) EXCEPT !.EncodeTime = 1]
           probed == ProbeGeometry(encoded, testCase, e.img)
           d == Decode(dec, e.img)
           decoded == [probed EXCEPT !.DecodeTime = 1]
       IN /\ encodeCalls' = Append(encodeCalls, <<ti, ei, di>>)
          /\ decodeCalls' = IF e.status = "ok"
                            THEN Append(decodeCalls, <<ti, ei, di>>) ELSE decodeCalls
          /\ faultAt' = IF \/ Len(testCase.Data) # 0 /\ enc.lib = "panic"
                           \/ e.status = "ok" /\ dec.lib = "panic"
                        THEN faultAt \cup {<<ti, ei, di>>} ELSE faultAt
          /\ CASE e.status = "panic" ->
                    /\ pc' = "crashed"
                    /\ UNCHANGED <<ti, ei, di, results, resultTriple, result, img>>
               [] e.status = "err" ->
                    AppendAndAdvance(EncodeFailure(encoded, enc, e.err))
               [] e.status = "ok" /\ d.status = "panic" ->
                    /\ pc' = "crashed"
                    /\ result' = probed
                    /\ img' = e.img
                    /\ UNCHANGED <<ti, ei, di, results, resultTriple>>
               [] e.status = "ok" /\ d.status = "hang" ->
                    /\ pc' = "decoding"
                    /\ result' = probed
                    /\ img' = e.img
                    /\ UNCHANGED <<ti, ei, di, results, resultTriple>>
               [] e.status = "ok" /\ d.status = "err" ->
                    AppendAndAdvance(DecodeFailure(decoded, d.err))
               [] e.status = "ok" /\ d.status = "ok" ->
                    AppendAndAdvance(Validate(decoded, testCase, d.data))
    /\ UNCHANGED <<Encoders, Decoders, TestCases, Config, ret, elapsed>>
    /\ UNCHANGED <<aggVars, fnVars>>

\* time passes while runTest is blocked in a dec.Decode call that does not return
Tick ==
    /\ pc = "decoding"
    /\ elapsed <= Config.Timeout
    /\ elapsed' = elapsed + 1
    /\ UNCHANGED <<Encoders, Decoders, TestCases, Config, pc, ti, ei, di, results,
                   result, img, ret, resultTriple, encodeCalls, decodeCalls, faultAt>>
    /\ UNCHANGED <<aggVars, fnVars>>

Range(s) == { s[i] : i \in 1..Len(s) }

\* the slices a range over a Go map can build from the keys S: any order
Orderings(S) ==
    { s \in [1..Cardinality(S) -> S] : Range(s) = S }

\* RunAllReturn that lists the sizes test case by test case instead of
\* collecting them in maps first
RunAllReturn_PerCase ==
    /\ pc = "collect"
    /\ ret' = [matrix |-> [Results |-> results,
                           Encoders |-> [i \in 1..Len(Encoders) |-> Encoders[i].Name],
                           Decoders |-> [i \in 1..Len(Decoders) |-> Decoders[i].Name],
                           DataSizes |-> [i \in 1..Len(TestCases) |-> TestCases[i].DataSize],
                           PixelSizes |-> [i \in 1..Len(TestCases) |-> TestCases[i].PixelSize]],
               err |-> ""]
    /\ pc' = "returned"
    /\ UNCHANGED <<Encoders, Decoders, TestCases, Config, ti, ei, di, results, result,
                   img, resultTriple, encodeCalls, decodeCalls, faultAt, elapsed>>
    /\ UNCHANGED <<aggVars, fnVars>>

\* RunAll, after the loops: the maps become slices and the matrix is returned
RunAllReturn ==
    /\ pc = "collect"
    /\ \E dataSizes \in Orderings({ TestCases[i].DataSize : i \in 1..Len(TestCases) }),
          pixelSizes \in Orderings({ TestCases[i].PixelSize : i \in 1..Len(TestCases) }) :
          ret' = [matrix |-> [Results |-> results,
                              Encoders |-> [i \in 1..Len(Encoders) |-> Encoders[i].Name],
                              Decoders |-> [i \in 1..Len(Decoders) |-> Decoders[i].Name],
                              DataSizes |-> dataSizes,
                              PixelSizes |-> pixelSizes],
                  err |-> ""]
    /\ pc' = "returned"
    /\ UNCHANGED <<Encoders, Decoders, TestCases, Config, ti, ei, di, results, result,
                   img, resultTriple, encodeCalls, decodeCalls, faultAt, elapsed>>
    /\ UNCHANGED <<aggVars, fnVars>>

Next ==
    \/ RunAllBegin
    \/ RunTest
    \/ Tick
    \/ RunAllReturn

Spec == Init /\ [][Next]_vars

---------------------------------------------------------------------------
(* Aggregator.  A RawTestResult carries the fields the statistics read; the *)
(* durations and the averages computed from them are not modelled.  A       *)
(* float64 rate is kept as the exact fraction num/den in lowest terms, so   *)
(* that two rates are equal exactly when the floats are.                    *)

RawUniverse ==
    [Encoder : {"skip2/go-qrcode", "boombuler/barcode"},
     Decoder : {"makiuchi-d/gozxing", "tuotoo/qrcode"},
     Success : BOOLEAN,
     IsCapacityExceeded : BOOLEAN]

\* the data sizes and pixel sizes of GeneratePixelSizeMatrix
DataSizeList == <<100, 300, 500, 750>>
PixelSizeList == <<264, 270, 360, 392, 445, 462>>

\* the i-th record of a loaded list: outcome o for the i-th test case of the
\* generator's loops (pixel size innermost), so that no two records of a
\* list share the key loadAllResults de-duplicates by
RawRecord(o, i) ==
    [Encoder |-> o.Encoder,
     Decoder |-> o.Decoder,
     DataSize |-> DataSizeList[(((i - 1) \div Len(PixelSizeList)) % Len(DataSizeList)) + 1],
     PixelSize |-> PixelSizeList[((i - 1) % Len(PixelSizeList)) + 1],
     ContentType |-> "alphanumeric",
     Success |-> o.Success,
     ErrorType |-> IF o.Success THEN ""
                   ELSE IF o.IsCapacityExceeded THEN "encode" ELSE "decode",
     IsCapacityExceeded |-> o.IsCapacityExceeded,
     QRVersion |-> 0,
     ModuleCount |-> 0,
     ModulePixelSize |-> [num |-> 0, den |-> 1],
     IsFractionalModule |-> FALSE]

\* the list loadAllResults returns for the outcomes os
RawList(os) == [i \in 1..Len(os) |-> RawRecord(os[i], i)]

\* the Runner is not running
RunnerIdle ==
    /\ Encoders = <<>> /\ Decoders = <<>> /\ TestCases = <<>>
    /\ Config = Nil
    /\ pc = "idle"
    /\ ti = 0 /\ ei = 0 /\ di = 0
    /\ results = <<>> /\ resultTriple = <<>>
    /\ result = Nil /\ img = Nil /\ ret = Nil
    /\ encodeCalls = <<>> /\ decodeCalls = <<>>
    /\ faultAt = {} /\ elapsed = 0

\* main, after loadAllResults
AggInit ==
    /\ \E k \in 0..MaxRaw : \E os \in [1..k -> RawUniverse] : raw = RawList(os)
    /\ apc = "loaded"
    /\ encoderStats = NoStats
    /\ decoderStats = NoStats
    /\ combinations = NoStats
    /\ summary = NoStats
    /\ failures = NoStats
    /\ files = NoFiles
    /\ RunnerIdle
    /\ NoCall

RECURSIVE GCD(_, _)
GCD(a, b) == IF b = 0 THEN a ELSE GCD(b, a % b)

\* a rate written without its zero guard: the quotient whatever the divisor
Rate_Unguarded(successes, effectiveTests) ==
    [num |-> successes * 100, den |-> effectiveTests]

\* a rate scaled to thousandths instead of percent
Rate_Permille(successes, effectiveTests) ==
    IF effectiveTests > 0
    THEN LET g == GCD(successes * 1000, effectiveTests)
         IN [num |-> (successes * 1000) \div g, den |-> effectiveTests \div g]
    ELSE [num |-> 0, den |-> 1]

\* rate := 0.0; if effectiveTests > 0 { rate = successes / effectiveTests * 100 }
Rate(successes, effectiveTests) ==
    IF effectiveTests > 0
    THEN LET g == GCD(successes * 100, effectiveTests)
         IN [num |-> (successes * 100) \div g, den |-> effectiveTests \div g]
    ELSE [num |-> 0, den |-> 1]

RateGT(a, b) == a.num * b.den > b.num * a.den

\* the counters a loop keeps over the first n results of rs
RECURSIVE Counters(_, _)
Counters(rs, n) ==
    IF n = 0
    THEN [tests |-> 0, successes |-> 0, capacitySkips |-> 0]
    ELSE LET t == Counters(rs, n - 1)
             r == rs[n]
         IN [tests |-> t.tests + 1,
             successes |-> IF r.Success THEN t.successes + 1 ELSE t.successes,
             capacitySkips |-> IF r.IsCapacityExceeded
                               THEN t.capacitySkips + 1 ELSE t.capacitySkips]

\* the counters of the map entry that collects the results kept
Tally(kept) == Counters(kept, Len(kept))

\* DecoderBreakdown / EncoderBreakdown / the counters of a stats entry
Breakdown(t) ==
    [SuccessRate |-> Rate(t.successes, t.tests - t.capacitySkips),
     Tests |-> t.tests,
     Successes |-> t.successes,
     CapacitySkips |-> t.capacitySkips,
     EffectiveTests |-> t.tests - t.capacitySkips]

\* computeEncoderStats: one entry per encoder name, here as a set (the slice
\* is the entries sorted by rate, ties in any order)
computeEncoderStats(rs) ==
    { LET all == Breakdown(Tally(SelectSeq(rs, LAMBDA r : r.Encoder = name)))
      IN [Name |-> name,
          SuccessRate |-> all.SuccessRate,
          TotalTests |-> all.Tests,
          SuccessCount |-> all.Successes,
          CapacitySkips |-> all.CapacitySkips,
          EffectiveTests |-> all.EffectiveTests,
          ByDecoder |->
              [dec \in { rs[i].Decoder : i \in { j \in 1..Len(rs) : rs[j].Encoder = name } } |->
                  Breakdown(Tally(SelectSeq(rs,
                                  LAMBDA r : r.Encoder = name /\ r.Decoder = dec)))]]
      : name \in { rs[i].Encoder : i \in 1..Len(rs) } }

\* computeDecoderStats: one entry per decoder name
computeDecoderStats(rs) ==
    { LET all == Breakdown(Tally(SelectSeq(rs, LAMBDA r : r.Decoder = name)))
      IN [Name |-> name,
          SuccessRate |-> all.SuccessRate,
          TotalTests |-> all.Tests,
          SuccessCount |-> all.Successes,
          CapacitySkips |-> all.CapacitySkips,
          EffectiveTests |-> all.EffectiveTests,
          ByEncoder |->
              [enc \in { rs[i].Encoder : i \in { j \in 1..Len(rs) : rs[j].Decoder = name } } |->
                  Breakdown(Tally(SelectSeq(rs,
                                  LAMBDA r : r.Decoder = name /\ r.Encoder = enc)))]]
      : name \in { rs[i].Decoder : i \in 1..Len(rs) } }

\* the keys of computeCombinations' agg map (encoder + "|" + decoder, split
\* again by splitKey; adapter names contain no "|")
CombinationKeys(rs) == { <<rs[i].Encoder, rs[i].Decoder>> : i \in 1..Len(rs) }

\* the CombinationResult of one key
CombinationResult(rs, key) ==
    LET b == Breakdown(Tally(SelectSeq(rs,
                             LAMBDA r : r.Encoder = key[1] /\ r.Decoder = key[2])))
    IN [Encoder |-> key[1],
        Decoder |-> key[2],
        SuccessRate |-> b.SuccessRate,
        Tests |-> b.Tests,
        Successes |-> b.Successes,
        CapacitySkips |-> b.CapacitySkips,
        EffectiveTests |-> b.EffectiveTests]

\* var best CombinationResult
ZeroCombination ==
    [Encoder |-> "", Decoder |-> "", SuccessRate |-> [num |-> 0, den |-> 1],
     Tests |-> 0, Successes |-> 0, CapacitySkips |-> 0, EffectiveTests |-> 0]

\* best after the first n keys of the map iteration order
RECURSIVE BestAfter(_, _, _)
BestAfter(rs, order, n) ==
    IF n = 0
    THEN ZeroCombination
    ELSE LET best == BestAfter(rs, order, n - 1)
             cr == CombinationResult(rs, order[n])
         IN IF RateGT(cr.SuccessRate, best.SuccessRate) THEN cr ELSE best

\* computeCombinations, for one iteration order of its agg map
computeCombinations(rs, order) ==
    LET best == BestAfter(rs, order, Len(order))
    IN [Matrix |-> { CombinationResult(rs, order[i]) : i \in 1..Len(order) },
        Best |-> [Encoder |-> best.Encoder,
                  Decoder |-> best.Decoder,
                  SuccessRate |-> best.SuccessRate]]

\* the names encoders[0].Name can be: the entries that no entry outranks
TopNames(stats) ==
    IF stats = {} THEN {""}
    ELSE { e.Name : e \in { x \in stats :
                              \A y \in stats : ~RateGT(y.SuccessRate, x.SuccessRate) } }

\* computeSummary
computeSummary(rs, bestEncoder, bestDecoder, encoders, decoders, combs) ==
    LET all == Breakdown(Tally(SelectSeq(rs, LAMBDA r : TRUE)))
    IN [TotalTests |-> Len(rs),
        TotalSuccesses |-> all.Successes,
        CapacitySkips |-> all.CapacitySkips,
        EffectiveTests |-> all.EffectiveTests,
        OverallRate |-> all.SuccessRate,
        BestEncoder |-> bestEncoder,
        BestDecoder |-> bestDecoder,
        BestCombination |-> combs.Best,
        EncoderCount |-> Cardinality(encoders),
        DecoderCount |-> Cardinality(decoders)]

\* one ConditionFailures entry: the failures among the results kept
ConditionFailures(condition, kept) ==
    LET failed == SelectSeq(kept, LAMBDA r : ~r.Success)
    IN [Condition |-> condition,
        Failures |-> Len(failed),
        Total |-> Len(kept),
        Rate |-> Rate(Len(failed), Len(kept))]

\* computeFailures: capacity-exceeded results are skipped, every other
\* result is counted by data size, pixel size, content type and in the
\* fractional or the integer bucket (the By* slices are kept as sets)
computeFailures(rs) ==
    LET kept == SelectSeq(rs, LAMBDA r : ~r.IsCapacityExceeded)
        failedAs(t) == Len(SelectSeq(kept, LAMBDA r : ~r.Success /\ r.ErrorType = t))
    IN [ByType |-> [Encode |-> failedAs("encode"),
                    Decode |-> failedAs("decode"),
                    DataMismatch |-> failedAs("dataMismatch")],
        ByDataSize |->
            { ConditionFailures(<<size, "bytes">>,
                                SelectSeq(kept, LAMBDA r : r.DataSize = size))
              : size \in { kept[i].DataSize : i \in 1..Len(kept) } },
        ByPixelSize |->
            { ConditionFailures(<<size, "px">>,
                                SelectSeq(kept, LAMBDA r : r.PixelSize = size))
              : size \in { kept[i].PixelSize : i \in 1..Len(kept) } },
        ByContentType |->
            { ConditionFailures(ct, SelectSeq(kept, LAMBDA r : r.ContentType = ct))
              : ct \in { kept[i].ContentType : i \in 1..Len(kept) } },
        FractionalModule |->
            ConditionFailures("Fractional module size",
                              SelectSeq(kept, LAMBDA r : r.IsFractionalModule)),
        IntegerModule |->
            ConditionFailures("Integer module size",
                              SelectSeq(kept, LAMBDA r : ~r.IsFractionalModule))]

\* main: exits when nothing was loaded, else computes the five tables
AggregatorMain ==
    /\ apc = "loaded"
    /\ IF Len(raw) = 0
       THEN /\ apc' = "exit"
            /\ UNCHANGED <<encoderStats, decoderStats, combinations, summary, failures>>
       ELSE /\ apc' = "done"
            /\ encoderStats' = computeEncoderStats(raw)
            /\ decoderStats' = computeDecoderStats(raw)
            /\ failures' = computeFailures(raw)
            /\ \E order \in Orderings(CombinationKeys(raw)) :
                  combinations' = computeCombinations(raw, order)
            /\ \E bestEncoder \in TopNames(encoderStats'),
                  bestDecoder \in TopNames(decoderStats') :
                  summary' = computeSummary(raw, bestEncoder, bestDecoder,
                                            encoderStats', decoderStats', combinations')
    /\ UNCHANGED <<raw, files>>
    /\ UNCHANGED <<runnerVars, fnVars>>

AggNext == AggregatorMain

AggSpec == AggInit /\ [][AggNext]_vars

---------------------------------------------------------------------------
(* The pipeline: qr-tester runs the matrix, the JSON reporter writes it,  *)
(* the aggregator loads what was written.                                  *)

\* the first cases of GeneratePixelSizeMatrix (content type, then
\* error-correction level innermost), payloads scaled down to a few bytes
PixelSizeCases ==
    << [Data |-> <<65>>, DataSize |-> 1, PixelSize |-> 264,
        ContentType |-> ContentAlphanumeric, ErrorCorrectionLevel |-> "L"],
       [Data |-> <<65>>, DataSize |-> 1, PixelSize |-> 264,
        ContentType |-> ContentAlphanumeric, ErrorCorrectionLevel |-> "H"],
       [Data |-> <<72, 105>>, DataSize |-> 3, PixelSize |-> 264,
        ContentType |-> ContentUTF8, ErrorCorrectionLevel |-> "L"],
       [Data |-> <<72, 105>>, DataSize |-> 3, PixelSize |-> 264,
        ContentType |-> ContentUTF8, ErrorCorrectionLevel |-> "H"] >>

PixelSizeCaseLists ==
    { SubSeq(PixelSizeCases, 1, k) : k \in 0..Min(MaxCases, Len(PixelSizeCases)) }

\* qr-tester's run: a Runner over the pixel-size matrix, here with up to
\* MaxEncoders encoders and one decoder
PipeInit ==
    /\ \E n \in 1..MaxEncoders : Encoders \in Adapters(EncoderRegistry, EncoderLibs, n)
    /\ Decoders \in Adapters(DecoderRegistry, DecoderLibs, 1)
    /\ TestCases \in PixelSizeCaseLists
    /\ Config \in ConfigUniverse
    /\ pc = "start"
    /\ ti = 0 /\ ei = 0 /\ di = 0
    /\ results = <<>>
    /\ result = Nil
    /\ img = Nil
    /\ ret = Nil
    /\ resultTriple = <<>>
    /\ encodeCalls = <<>>
    /\ decodeCalls = <<>>
    /\ faultAt = {}
    /\ elapsed = 0
    /\ AggIdle
    /\ NoCall

\* sanitizeFilename of the JSON reporter: every "/" becomes "_"
sanitizeFilename(name) ==
    CASE name = "skip2/go-qrcode" -> "skip2_go-qrcode"
      [] name = "boombuler/barcode" -> "boombuler_barcode"
      [] name = "yeqown/go-qrcode" -> "yeqown_go-qrcode"
      [] name = "gozxing/encoder" -> "gozxing_encoder"
      [] name = "makiuchi-d/gozxing" -> "makiuchi-d_gozxing"
      [] name = "tuotoo/qrcode" -> "tuotoo_qrcode"
      [] OTHER -> name

\* convertResult: the reporter's RawTestResult (it has no capacity field
\* and no error-correction level; the durations are not modelled)
convertResult(res) ==
    [Encoder |-> res.EncoderName,
     Decoder |-> res.DecoderName,
     DataSize |-> res.DataSize,
     PixelSize |-> res.PixelSize,
     ContentType |-> res.ContentType,
     Success |-> res.Error = Nil,
     ErrorType |-> IF res.Error = Nil THEN ""
                   ELSE CASE res.Error.tag = "EncodeError" -> "encode"
                          [] res.Error.tag = "DecodeError" -> "decode"
                          [] res.Error.tag = "DataMismatchError" -> "dataMismatch"
                          [] OTHER -> "",
     QRVersion |-> res.QRVersion,
     ModuleCount |-> res.ModuleCount,
     ModulePixelSize |-> res.ModulePixelSize,
     IsFractionalModule |-> res.IsFractionalModule]

\* generateEncoderFiles / generateDecoderFiles: one file per adapter name,
\* holding the converted results of that adapter in matrix order
GroupFiles(rs, nameField) ==
    [f \in { sanitizeFilename(rs[i][nameField]) : i \in 1..Len(rs) } |->
        LET kept == SelectSeq(rs, LAMBDA r : sanitizeFilename(r[nameField]) = f)
        IN [i \in 1..Len(kept) |-> convertResult(kept[i])]]

\* JSONReporter.Generate, called by run once RunAll returned a matrix
Generate ==
    /\ pc = "returned"
    /\ ret.err = ""
    /\ apc = "idle"
    /\ files' = [encoders |-> GroupFiles(ret.matrix.Results, "EncoderName"),
                 decoders |-> GroupFiles(ret.matrix.Results, "DecoderName")]
    /\ apc' = "written"
    /\ UNCHANGED <<raw, encoderStats, decoderStats, combinations, summary, failures>>
    /\ UNCHANGED <<runnerVars, fnVars>>

\* json.Unmarshal into the aggregator's RawTestResult: the fields the file
\* names are copied, the others keep their zero value
Unmarshal(rec) ==
    LET get(field, zero) == IF field \in DOMAIN rec THEN rec[field] ELSE zero
    IN [Encoder |-> get("Encoder", ""),
        Decoder |-> get("Decoder", ""),
        DataSize |-> get("DataSize", 0),
        PixelSize |-> get("PixelSize", 0),
        ContentType |-> get("ContentType", ""),
        Success |-> get("Success", FALSE),
        ErrorType |-> get("ErrorType", ""),
        IsCapacityExceeded |-> get("IsCapacityExceeded", FALSE),
        QRVersion |-> get("QRVersion", 0),
        ModuleCount |-> get("ModuleCount", 0),
        ModulePixelSize |-> get("ModulePixelSize", [num |-> 0, den |-> 1]),
        IsFractionalModule |-> get("IsFractionalModule", FALSE)]

\* os.ReadDir returns the entries sorted by file name
DirOrder ==
    <<"boombuler_barcode", "gozxing_encoder", "skip2_go-qrcode", "yeqown_go-qrcode">>

\* loadResultsFromDir: the records of the first n files of the directory
RECURSIVE loadResultsFromDir(_, _)
loadResultsFromDir(dir, n) ==
    IF n = 0 THEN <<>>
    ELSE LET before == loadResultsFromDir(dir, n - 1)
             f == DirOrder[n]
         IN IF f \in DOMAIN dir
            THEN before \o [i \in 1..Len(dir[f]) |-> Unmarshal(dir[f][i])]
            ELSE before

\* the key loadAllResults de-duplicates by
DedupKey(r) == <<r.Encoder, r.Decoder, r.DataSize, r.PixelSize, r.ContentType>>

\* the de-duplication loop over the first n loaded records
RECURSIVE Unique(_, _)
Unique(all, n) ==
    IF n = 0 THEN <<>>
    ELSE LET unique == Unique(all, n - 1)
         IN IF \E i \in 1..(n - 1) : DedupKey(all[i]) = DedupKey(all[n])
            THEN unique
            ELSE Append(unique, all[n])

\* loadAllResults: the encoders directory, de-duplicated
loadAllResults(dirs) ==
    LET allResults == loadResultsFromDir(dirs.encoders, Len(DirOrder))
    IN Unique(allResults, Len(allResults))

\* the aggregator's main, up to the loaded list
LoadAllResults ==
    /\ apc = "written"
    /\ raw' = loadAllResults(files)
    /\ apc' = "loaded"
    /\ UNCHANGED <<files, encoderStats, decoderStats, combinations, summary, failures>>
    /\ UNCHANGED <<runnerVars, fnVars>>

PipeNext == Next \/ Generate \/ LoadAllResults \/ AggregatorMain

PipeSpec == PipeInit /\ [][PipeNext]_vars

---------------------------------------------------------------------------
(* MarkdownReporter.hasNonMonotonicFailures, called on the results of one  *)
(* encoder/decoder pair.                                                   *)

MonoDataSizes == {100, 300}
MonoPixelSizes == {264, 270, 360}

\* the outcomes of one pair: what the function reads of a TestResult
MonoResults ==
    [DataSize : MonoDataSizes,
     PixelSize : MonoPixelSizes,
     Error : {Nil, [tag |-> "DecodeError", Err |-> "decode failed"]}]

\* results in matrix order: the generator's loops put the data size
\* outermost, then the pixel size; several test cases (content types,
\* error-correction levels) share one data size and pixel size
InMatrixOrder(rs) ==
    \A i \in 1..(Len(rs) - 1) :
        \/ rs[i].DataSize < rs[i + 1].DataSize
        \/ rs[i].DataSize = rs[i + 1].DataSize /\ rs[i].PixelSize <= rs[i + 1].PixelSize

MonoInit ==
    /\ \E k \in 0..MaxGroup :
          \E rs \in [1..k -> MonoResults] :
              /\ InMatrixOrder(rs)
              /\ arg = [fn |-> "hasNonMonotonicFailures", results |-> rs]
    /\ out = Nil
    /\ RunnerIdle
    /\ AggIdle

\* the orders sort.Slice (not stable) can leave rs in: by pixel size, equal
\* pixel sizes in any order
SortedByPixelSize(rs) ==
    { [i \in 1..Len(rs) |-> rs[p[i]]] :
        p \in { q \in Orderings(1..Len(rs)) :
                  \A i \in 1..(Len(rs) - 1) : rs[q[i]].PixelSize <= rs[q[i + 1]].PixelSize } }

\* the scan of one sorted group for success, failure, success at i-1, i, i+1
ScanGroup(group) ==
    \E i \in 2..(Len(group) - 1) :
        /\ group[i - 1].Error = Nil
        /\ group[i].Error # Nil
        /\ group[i + 1].Error = Nil

\* hasNonMonotonicFailures, for the order sorted its groups were sorted into
hasNonMonotonicFailures(rs, sorted) ==
    \E size \in { rs[i].DataSize : i \in 1..Len(rs) } :
        ScanGroup(SelectSeq(sorted, LAMBDA r : r.DataSize = size))

CallHasNonMonotonicFailures ==
    /\ arg # Nil /\ arg.fn = "hasNonMonotonicFailures"
    /\ out = Nil
    /\ \E sorted \in SortedByPixelSize(arg.results) :
          out' = [value |-> hasNonMonotonicFailures(arg.results, sorted)]
    /\ UNCHANGED arg
    /\ UNCHANGED <<runnerVars, aggVars>>

MonoNext == CallHasNonMonotonicFailures

MonoSpec == MonoInit /\ [][MonoNext]_vars

---------------------------------------------------------------------------
(* The module geometry functions, each called on its own. *)

GeoArgs ==
    { [fn |-> "CalculateModuleCount", version |-> v] : v \in (-2)..MaxVersionArg }
    \cup
    { [fn |-> "CalculateOptimalPixelSize", moduleCount |-> mc, quietZone |-> qz] :
        mc \in (-1)..MaxModuleArg, qz \in (-1)..MaxQuietArg }
    \cup
    { [fn |-> "CalculateModulePixelSize", pixelSize |-> px, moduleCount |-> mc,
       quietZone |-> qz] :
        px \in ((-1)..MaxPixelArg) \cup Range(PixelSizeList),
        mc \in (-1)..MaxModuleArg, qz \in (-1)..MaxQuietArg }

GeoInit ==
    /\ arg \in GeoArgs
    /\ out = Nil
    /\ RunnerIdle
    /\ AggIdle

CallCalculateModuleCount ==
    /\ arg # Nil /\ arg.fn = "CalculateModuleCount"
    /\ out = Nil
    /\ out' = [value |-> CalculateModuleCount(arg.version)]
    /\ UNCHANGED arg
    /\ UNCHANGED <<runnerVars, aggVars>>

CallCalculateOptimalPixelSize ==
    /\ arg # Nil /\ arg.fn = "CalculateOptimalPixelSize"
    /\ out = Nil
    /\ out' = [value |-> CalculateOptimalPixelSize(arg.moduleCount, arg.quietZone)]
    /\ UNCHANGED arg
    /\ UNCHANGED <<runnerVars, aggVars>>

\* CalculateModulePixelSize and IsFractionalModuleSize of what it returned
CallCalculateModulePixelSize ==
    /\ arg # Nil /\ arg.fn = "CalculateModulePixelSize"
    /\ out = Nil
    /\ LET size == CalculateModulePixelSize(arg.pixelSize, arg.moduleCount, arg.quietZone)
       IN out' = [value |-> size, fractional |-> IsFractionalModuleSize(size)]
    /\ UNCHANGED arg
    /\ UNCHANGED <<runnerVars, aggVars>>

GeoNext ==
    \/ CallCalculateModuleCount
    \/ CallCalculateOptimalPixelSize
    \/ CallCalculateModulePixelSize

GeoSpec == GeoInit /\ [][GeoNext]_vars

---------------------------------------------------------------------------
(* The test-data generators of internal/testdata, each called on its own. *)

\* digits := "0123456789"
Digits == <<48, 49, 50, 51, 52, 53, 54, 55, 56, 57>>

\* chars := "0123456789ABCDEFGHIJKLMNOPQRSTUVWXYZ $%*+-./:"
Chars ==
    <<48, 49, 50, 51, 52, 53, 54, 55, 56, 57,
      65, 66, 67, 68, 69, 70, 71, 72, 73, 74, 75, 76, 77, 78, 79, 80, 81, 82, 83, 84,
      85, 86, 87, 88, 89, 90, 32, 36, 37, 42, 43, 45, 46, 47, 58>>

\* pattern: the bytes of the string literal, "Hello", two CJK characters,
\* "Caf", e-acute, two CJK characters and six Cyrillic letters
Pattern ==
    <<72, 101, 108, 108, 111, 228, 184, 150, 231, 149, 140, 67, 97, 102, 195, 169,
      228, 189, 160, 229, 165, 189, 208, 156, 208, 190, 209, 129, 208, 186, 208, 178,
      208, 176>>

\* rand.NewSource(42)
BinarySeed == 42

\* generateNumeric
generateNumeric(size) ==
    IF size <= 0 THEN <<>>
    ELSE [i \in 1..size |-> Digits[((i - 1) % Len(Digits)) + 1]]

\* generateAlphanumeric
generateAlphanumeric(size) ==
    IF size <= 0 THEN <<>>
    ELSE [i \in 1..size |-> Chars[((i - 1) % Len(Chars)) + 1]]

\* unicode/utf8: a continuation byte
utf8Continuation(b) == b >= 128 /\ b <= 191

\* unicode/utf8: the length of the character a first byte announces, 0 for a
\* byte that starts no character
utf8Width(b) ==
    IF b < 128 THEN 1
    ELSE IF b >= 194 /\ b <= 223 THEN 2
    ELSE IF b >= 224 /\ b <= 239 THEN 3
    ELSE IF b >= 240 /\ b <= 244 THEN 4
    ELSE 0

\* unicode/utf8: the values the byte after the first byte b may have
utf8Second(b) ==
    IF b = 224 THEN 160..191
    ELSE IF b = 237 THEN 128..159
    ELSE IF b = 240 THEN 144..191
    ELSE IF b = 244 THEN 128..143
    ELSE 128..191

\* utf8.Valid: p is a sequence of whole, well-formed characters
utf8Valid(p) ==
    /\ Len(p) > 0 => ~utf8Continuation(p[1])
    /\ \A i \in 1..Len(p) :
          ~utf8Continuation(p[i]) =>
              LET w == utf8Width(p[i])
              IN /\ w > 0
                 /\ i + w - 1 <= Len(p)
                 /\ w >= 2 => p[i + 1] \in utf8Second(p[i])
                 /\ \A k \in 1..(w - 1) : utf8Continuation(p[i + k])
                 /\ i + w <= Len(p) => ~utf8Continuation(p[i + w])

\* for len(result) < size { result = append(result, []byte(pattern)...) }
RECURSIVE RepeatPattern(_, _)
RepeatPattern(res, size) ==
    IF Len(res) < size THEN RepeatPattern(res \o Pattern, size) ELSE res

\* for !utf8.Valid(truncated) && len(truncated) > 0 { truncated = truncated[:len-1] }
RECURSIVE TruncateToValid(_)
TruncateToValid(truncated) ==
    IF ~utf8Valid(truncated) /\ Len(truncated) > 0
    THEN TruncateToValid(SubSeq(truncated, 1, Len(truncated) - 1))
    ELSE truncated

\* generateUTF8 that returns result[:size] as it is
generateUTF8_Unchecked(size) ==
    IF size <= 0 THEN <<>>
    ELSE SubSeq(RepeatPattern(<<>>, size), 1, size)

\* generateUTF8
generateUTF8(size) ==
    IF size <= 0 THEN <<>>
    ELSE TruncateToValid(SubSeq(RepeatPattern(<<>>, size), 1, size))

\* math/rand: byte i of what Read delivers from a source freshly seeded with
\* seed.  The stream depends on the seed alone; the values stand for the
\* library's generator.
RandByte(seed, i) == ((seed + 89) * (i * i + 31 * i + 7)) % 256

\* rng.Read(data) on a fresh rand.New(rand.NewSource(seed))
Read(seed, n) == [i \in 1..n |-> RandByte(seed, i)]

\* generateBinary that seeds the source with the size
generateBinary_SeededBySize(size) ==
    IF size <= 0 THEN <<>>
    ELSE Read(size, size)

\* generateBinary
generateBinary(size) ==
    IF size <= 0 THEN <<>>
    ELSE Read(BinarySeed, size)

\* the switch of the grid generators: the payload of a content type
\* (GeneratePixelSizeMatrix has the alphanumeric and UTF-8 cases only, the
\* only two it asks for)
PayloadOf(contentType, dataSize) ==
    CASE contentType = ContentNumeric -> generateNumeric(dataSize)
      [] contentType = ContentAlphanumeric -> generateAlphanumeric(dataSize)
      [] contentType = ContentBinary -> generateBinary(dataSize)
      [] contentType = ContentUTF8 -> generateUTF8(dataSize)

\* the TestCase the grid generators append
GridCase(dataSize, pixelSize, contentType, ecLevel) ==
    [Data |-> PayloadOf(contentType, dataSize),
     DataSize |-> dataSize,
     PixelSize |-> pixelSize,
     ContentType |-> contentType,
     ErrorCorrectionLevel |-> ecLevel]

\* LevelLoop that stops after the first error-correction level
LevelLoop_FirstLevel(dataSize, pixelSize, contentType, errorLevels, n) ==
    IF n = 0 THEN <<>>
    ELSE <<GridCase(dataSize, pixelSize, contentType, errorLevels[1])>>

\* for _, ecLevel := range errorLevels: the cases of its first n rounds
RECURSIVE LevelLoop(_, _, _, _, _)
LevelLoop(dataSize, pixelSize, contentType, errorLevels, n) ==
    IF n = 0 THEN <<>>
    ELSE Append(LevelLoop(dataSize, pixelSize, contentType, errorLevels, n - 1),
                GridCase(dataSize, pixelSize, contentType, errorLevels[n]))

\* for _, contentType := range contentTypes
RECURSIVE ContentLoop(_, _, _, _, _)
ContentLoop(dataSize, pixelSize, contentTypes, errorLevels, n) ==
    IF n = 0 THEN <<>>
    ELSE ContentLoop(dataSize, pixelSize, contentTypes, errorLevels, n - 1)
         \o LevelLoop(dataSize, pixelSize, contentTypes[n], errorLevels, Len(errorLevels))

\* for _, pixelSize := range pixelSizes
RECURSIVE PixelLoop(_, _, _, _, _)
PixelLoop(dataSize, pixelSizes, contentTypes, errorLevels, n) ==
    IF n = 0 THEN <<>>
    ELSE PixelLoop(dataSize, pixelSizes, contentTypes, errorLevels, n - 1)
         \o ContentLoop(dataSize, pixelSizes[n], contentTypes, errorLevels,
                        Len(contentTypes))

\* for _, dataSize := range dataSizes
RECURSIVE SizeLoop(_, _, _, _, _)
SizeLoop(dataSizes, pixelSizes, contentTypes, errorLevels, n) ==
    IF n = 0 THEN <<>>
    ELSE SizeLoop(dataSizes, pixelSizes, contentTypes, errorLevels, n - 1)
         \o PixelLoop(dataSizes[n], pixelSizes, contentTypes, errorLevels,
                      Len(pixelSizes))

\* the dimensions of GeneratePixelSizeMatrix
PixelMatrixDims ==
    [dataSizes |-> <<100, 300, 500, 750>>,
     pixelSizes |-> <<264, 270, 360, 392, 445, 462>>,
     contentTypes |-> <<ContentAlphanumeric, ContentUTF8>>,
     errorLevels |-> <<"L", "H">>]

\* the dimensions of GenerateComprehensiveMatrix
ComprehensiveDims ==
    [dataSizes |-> <<10, 25, 50, 100, 300, 500, 1000, 2000, 2500>>,
     pixelSizes |-> <<128, 200, 264, 270, 360, 392, 445, 480, 512, 720, 1024>>,
     contentTypes |-> <<ContentNumeric, ContentAlphanumeric, ContentBinary, ContentUTF8>>,
     errorLevels |-> <<"L", "M", "H">>]

GeneratePixelSizeMatrix ==
    SizeLoop(PixelMatrixDims.dataSizes, PixelMatrixDims.pixelSizes,
             PixelMatrixDims.contentTypes, PixelMatrixDims.errorLevels,
             Len(PixelMatrixDims.dataSizes))

GenerateComprehensiveMatrix ==
    SizeLoop(ComprehensiveDims.dataSizes, ComprehensiveDims.pixelSizes,
             ComprehensiveDims.contentTypes, ComprehensiveDims.errorLevels,
             Len(ComprehensiveDims.dataSizes))

\* the bytes of the "utf8-multilingual-ecM" string literal
Multilingual ==
    <<72, 101, 108, 108, 111, 32, 87, 111, 114, 108, 100, 32, 228, 189, 160, 229, 165,
      189, 228, 184, 150, 231, 149, 140, 32, 208, 159, 209, 128, 208, 184, 208, 178,
      208, 181, 209, 130, 32, 208, 188, 208, 184, 209, 128, 32, 227, 129, 147, 227,
      130, 147, 227, 129, 171, 227, 129, 161, 227, 129, 175, 228, 184, 150, 231, 149,
      140>>

\* the bytes of the "utf8-emoji-ecM" string literal (four-byte characters)
Emoji ==
    <<81, 82, 32, 67, 111, 100, 101, 32, 84, 101, 115, 116, 105, 110, 103, 32, 240,
      159, 148, 141, 240, 159, 147, 177, 226, 156, 133, 226, 157, 140, 240, 159, 142,
      137>>

\* one entry of GenerateEdgeCases: 480 pixels, level M
EdgeCase(data, dataSize, contentType) ==
    [Data |-> data, DataSize |-> dataSize, PixelSize |-> 480,
     ContentType |-> contentType, ErrorCorrectionLevel |-> "M"]

GenerateEdgeCases ==
    << EdgeCase(<<>>, 0, ContentBinary),
       EdgeCase(<<66>>, 1, ContentBinary),
       EdgeCase(generateNumeric(50), 50, ContentNumeric),
       EdgeCase(generateNumeric(500), 500, ContentNumeric),
       EdgeCase(generateAlphanumeric(50), 50, ContentAlphanumeric),
       EdgeCase(generateAlphanumeric(1000), 1000, ContentAlphanumeric),
       EdgeCase(Multilingual, Len(Multilingual), ContentUTF8),
       EdgeCase(Emoji, Len(Emoji), ContentUTF8) >>

\* the calls made: a payload generator with two sizes m <= n, or a grid
GenArgs ==
    { [fn |-> f, m |-> m, n |-> n] :
        f \in {"generateNumeric", "generateAlphanumeric", "generateUTF8",
               "generateBinary"},
        m \in (-1)..MaxGenSize, n \in (-1)..MaxGenSize }
    \cup
    { [fn |-> f] : f \in {"GeneratePixelSizeMatrix", "GenerateComprehensiveMatrix",
                          "GenerateEdgeCases"} }

GenInit ==
    /\ arg \in { a \in GenArgs : "m" \in DOMAIN a => a.m <= a.n }
    /\ out = Nil
    /\ RunnerIdle
    /\ AggIdle

\* generateNumeric called with the size m and with the size n
CallGenerateNumeric ==
    /\ arg # Nil /\ arg.fn = "generateNumeric"
    /\ out = Nil
    /\ out' = [short |-> generateNumeric(arg.m), long |-> generateNumeric(arg.n)]
    /\ UNCHANGED arg
    /\ UNCHANGED <<runnerVars, aggVars>>

CallGenerateAlphanumeric ==
    /\ arg # Nil /\ arg.fn = "generateAlphanumeric"
    /\ out = Nil
    /\ out' = [short |-> generateAlphanumeric(arg.m),
               long |-> generateAlphanumeric(arg.n)]
    /\ UNCHANGED arg
    /\ UNCHANGED <<runnerVars, aggVars>>

CallGenerateUTF8 ==
    /\ arg # Nil /\ arg.fn = "generateUTF8"
    /\ out = Nil
    /\ out' = [short |-> generateUTF8(arg.m), long |-> generateUTF8(arg.n)]
    /\ UNCHANGED arg
    /\ UNCHANGED <<runnerVars, aggVars>>

CallGenerateBinary ==
    /\ arg # Nil /\ arg.fn = "generateBinary"
    /\ out = Nil
    /\ out' = [short |-> generateBinary(arg.m), long |-> generateBinary(arg.n)]
    /\ UNCHANGED arg
    /\ UNCHANGED <<runnerVars, aggVars>>

CallGeneratePixelSizeMatrix ==
    /\ arg # Nil /\ arg.fn = "GeneratePixelSizeMatrix"
    /\ out = Nil
    /\ out' = [cases |-> GeneratePixelSizeMatrix]
    /\ UNCHANGED arg
    /\ UNCHANGED <<runnerVars, aggVars>>

CallGenerateComprehensiveMatrix ==
    /\ arg # Nil /\ arg.fn = "GenerateComprehensiveMatrix"
    /\ out = Nil
    /\ out' = [cases |-> GenerateComprehensiveMatrix]
    /\ UNCHANGED arg
    /\ UNCHANGED <<runnerVars, aggVars>>

CallGenerateEdgeCases ==
    /\ arg # Nil /\ arg.fn = "GenerateEdgeCases"
    /\ out = Nil
    /\ out' = [cases |-> GenerateEdgeCases]
    /\ UNCHANGED arg
    /\ UNCHANGED <<runnerVars, aggVars>>

GenNext ==
    \/ CallGenerateNumeric
    \/ CallGenerateAlphanumeric
    \/ CallGenerateUTF8
    \/ CallGenerateBinary
    \/ CallGeneratePixelSizeMatrix
    \/ CallGenerateComprehensiveMatrix
    \/ CallGenerateEdgeCases

GenSpec == GenInit /\ [][GenNext]_vars

---------------------------------------------------------------------------
(* Properties of the Runner *)

AllNonEmpty == Len(Encoders) >= 1 /\ Len(Decoders) >= 1 /\ Len(TestCases) >= 1

\* RunAll has returned a matrix
Completed == pc = "returned" /\ ret.matrix # Nil

EncodeOf(t) == Encode(Encoders[t[2]], TestCases[t[1]].Data, EncodeOptionsFor(TestCases[t[1]]))

DecodeOf(t) == Decode(Decoders[t[3]], EncodeOf(t).img)

\* the tag of an Error value
Tag(e) == e.tag

\* C1: with N >= 1 encoders, M >= 1 decoders and K >= 1 test cases the matrix
\* RunAll returns has exactly N*M*K results, one for each triple and no two
\* for the same triple.
C1_ExactlyOnePerTriple ==
    (pc = "returned" /\ AllNonEmpty) =>
        /\ ret.matrix # Nil
        /\ Len(ret.matrix.Results) = Len(Encoders) * Len(Decoders) * Len(TestCases)
        /\ Len(resultTriple) = Len(ret.matrix.Results)
        /\ \A i \in 1..Len(resultTriple) : resultTriple[i] \in Triples
        /\ Cardinality(Range(resultTriple)) = Len(resultTriple)
        /\ \A i \in 1..Len(resultTriple) :
              /\ ret.matrix.Results[i].EncoderName = Encoders[resultTriple[i][2]].Name
              /\ ret.matrix.Results[i].DecoderName = Decoders[resultTriple[i][3]].Name
              /\ ret.matrix.Results[i].DataSize = TestCases[resultTriple[i][1]].DataSize

C1_Witness ==
    /\ Completed
    /\ Len(Encoders) = 2 /\ Len(Decoders) = 2 /\ Len(TestCases) = 2
    /\ Len(ret.matrix.Results) = 8

\* C2: with zero encoders, zero decoders or zero test cases RunAll returns an
\* error and no matrix, and no Encode or Decode call is ever made.
C2_FailFast ==
    ~AllNonEmpty =>
        /\ encodeCalls = <<>>
        /\ decodeCalls = <<>>
        /\ pc \in {"start", "returned"}
        /\ pc = "returned" => (ret.err # "" /\ ret.matrix = Nil)

C2_Witness ==
    /\ pc = "returned"
    /\ Len(Encoders) >= 1 /\ Len(Decoders) >= 1 /\ Len(TestCases) = 0
    /\ ret.err = "no test cases provided"

\* the triple t failed: Encode or Decode returned an error, or the decoded
\* bytes are not the payload
TripleFailed(t) ==
    \/ EncodeOf(t).status = "err"
    \/ /\ EncodeOf(t).status = "ok"
       /\ \/ DecodeOf(t).status = "err"
          \/ DecodeOf(t).status = "ok" /\ DecodeOf(t).data # TestCases[t[1]].Data

\* C3: with three non-empty inputs, whatever errors or wrong data the adapters
\* return, RunAll returns a nil error and the full matrix, and every failure
\* is recorded in the Error of its own triple's result.
C3_FailuresStayLocal ==
    (pc = "returned" /\ AllNonEmpty) =>
        /\ ret.err = ""
        /\ ret.matrix # Nil
        /\ Len(ret.matrix.Results) = Len(Encoders) * Len(Decoders) * Len(TestCases)
        /\ \A i \in 1..Len(ret.matrix.Results) :
              TripleFailed(resultTriple[i]) <=> ret.matrix.Results[i].Error # Nil

C3_Witness ==
    /\ Completed
    /\ ret.err = ""
    /\ \E i \in 1..Len(ret.matrix.Results) : Tag(ret.matrix.Results[i].Error) = "EncodeError"
    /\ \E i \in 1..Len(ret.matrix.Results) : Tag(ret.matrix.Results[i].Error) = "DecodeError"
    /\ \E i \in 1..Len(ret.matrix.Results) :
          Tag(ret.matrix.Results[i].Error) = "DataMismatchError"

\* C4: a panic of the wrapped library during Encode or Decode never ends the
\* run: the triple gets an EncodeError or DecodeError result and RunAll goes
\* on to return the full matrix.
C4_PanicBecomesOutcome ==
    /\ pc # "crashed"
    /\ \A i \in 1..Len(results) :
          resultTriple[i] \in faultAt =>
              Tag(results[i].Error) \in {"EncodeError", "DecodeError"}
    /\ (pc = "returned" /\ AllNonEmpty) =>
          (ret.matrix # Nil /\
           Len(ret.matrix.Results) = Len(Encoders) * Len(Decoders) * Len(TestCases))

\* C5: when Encode returns an error, Decode is never called for the triple,
\* the result is an EncodeError whose IsCapacityExceeded is what the
\* encoder's IsCapacityError says of the error, and DecodeTime stays zero.
C5_EncodeErrorEndsTriple ==
    /\ \A i \in 1..Len(decodeCalls) : EncodeOf(decodeCalls[i]).status # "err"
    /\ \A i \in 1..Len(results) :
          LET e == EncodeOf(resultTriple[i])
          IN e.status = "err" =>
                /\ results[i].Error = [tag |-> "EncodeError", Err |-> e.err]
                /\ results[i].IsCapacityExceeded = (e.err = CapacityMsg)
                /\ results[i].DecodeTime = 0

C5_Witness ==
    /\ \E i \in 1..Len(results) :
          Tag(results[i].Error) = "EncodeError" /\ results[i].IsCapacityExceeded
    /\ \E i \in 1..Len(results) :
          Tag(results[i].Error) = "EncodeError" /\ ~results[i].IsCapacityExceeded

\* the tag the four-way classification gives the triple t
ExpectedTag(t) ==
    IF EncodeOf(t).status = "err" THEN "EncodeError"
    ELSE IF DecodeOf(t).status = "err" THEN "DecodeError"
    ELSE IF DecodeOf(t).data # TestCases[t[1]].Data THEN "DataMismatchError"
    ELSE "nil"

\* C6: every result carries exactly one of the four tags, chosen in the order
\* EncodeError, DecodeError, DataMismatchError, nil; it is nil only when the
\* decoded bytes equal the payload byte for byte.
C6_OneTagInOrder ==
    \A i \in 1..Len(results) :
        /\ Tag(results[i].Error) \in {"EncodeError", "DecodeError", "DataMismatchError", "nil"}
        /\ Tag(results[i].Error) = ExpectedTag(resultTriple[i])
        /\ results[i].Error = Nil =>
              /\ EncodeOf(resultTriple[i]).status = "ok"
              /\ DecodeOf(resultTriple[i]).status = "ok"
              /\ DecodeOf(resultTriple[i]).data = TestCases[resultTriple[i][1]].Data

C6_Witness ==
    /\ \E i \in 1..Len(results) : results[i].Error = Nil
    /\ \E i \in 1..Len(results) : Tag(results[i].Error) = "EncodeError"
    /\ \E i \in 1..Len(results) :
          /\ Tag(results[i].Error) = "DataMismatchError"
          /\ results[i].Error.Expected = results[i].Error.Got

\* C7: a Decode that succeeds with bytes of another length than the payload
\* gives a DataMismatchError, and every DataMismatchError has Expected = the
\* payload's length and Got = the length of the bytes the decoder returned.
C7_MismatchLengths ==
    \A i \in 1..Len(results) :
        LET t == resultTriple[i]
        IN /\ ( /\ EncodeOf(t).status = "ok"
                /\ DecodeOf(t).status = "ok"
                /\ Len(DecodeOf(t).data) # Len(TestCases[t[1]].Data) )
              => Tag(results[i].Error) = "DataMismatchError"
           /\ Tag(results[i].Error) = "DataMismatchError" =>
                /\ results[i].Error.Expected = Len(TestCases[t[1]].Data)
                /\ results[i].Error.Got = Len(DecodeOf(t).data)

C7_Witness ==
    \E i \in 1..Len(results) :
        /\ Tag(results[i].Error) = "DataMismatchError"
        /\ results[i].Error.Expected # results[i].Error.Got
        /\ results[i].Error.Expected # results[i].DataSize

\* C8: a Decode call never stays pending longer than Config.Timeout: the
\* Runner records a DecodeError and goes on.
C8_DecodeTimesOut ==
    ~(pc = "decoding" /\ elapsed > Config.Timeout)

\* C9: for every triple Encode is called at most once and Decode at most
\* once and only after a successful Encode; when RunAll returns the matrix,
\* Encode was called exactly once for every triple and Decode exactly once
\* for every triple whose Encode succeeded, for every Parallel and MaxWorkers.
C9_EachTripleOnce ==
    /\ Range(encodeCalls) \subseteq Triples
    /\ Cardinality(Range(encodeCalls)) = Len(encodeCalls)
    /\ Cardinality(Range(decodeCalls)) = Len(decodeCalls)
    /\ Range(decodeCalls) \subseteq Range(encodeCalls)
    /\ \A i \in 1..Len(decodeCalls) : EncodeOf(decodeCalls[i]).status = "ok"
    /\ Completed =>
          /\ Range(encodeCalls) = Triples
          /\ Range(decodeCalls) = { t \in Triples : EncodeOf(t).status = "ok" }

C9_Witness ==
    /\ Completed
    /\ Config.Parallel /\ Config.MaxWorkers > 1
    /\ Len(encodeCalls) = 8
    /\ Len(decodeCalls) \in 1..7

---------------------------------------------------------------------------
(* Properties of the Aggregator *)

\* the entries of the loaded list that satisfy keep
Where(keep(_)) == { i \in 1..Len(raw) : keep(raw[i]) }

\* successes / effectiveTests as a percentage, 0 when effectiveTests = 0,
\* with a divisor that is never 0
RateIs(rate, successes, effectiveTests) ==
    /\ rate.den > 0
    /\ IF effectiveTests > 0
       THEN rate.num * effectiveTests = successes * 100 * rate.den
       ELSE rate.num = 0

\* the counters of an aggregate over the entries that satisfy keep
CountersAre(tests, successes, skips, effective, rate, keep(_)) ==
    /\ tests = Cardinality(Where(keep))
    /\ successes = Cardinality(Where(LAMBDA r : keep(r) /\ r.Success))
    /\ skips = Cardinality(Where(LAMBDA r : keep(r) /\ r.IsCapacityExceeded))
    /\ effective = tests - skips
    /\ RateIs(rate, successes, effective)

\* C10: in the encoder, decoder, combination and summary statistics,
\* effectiveTests = tests - capacitySkips and the success rate is
\* successes / effectiveTests * 100 when effectiveTests > 0 and 0 when it is
\* 0; no rate is computed with a zero divisor.
C10_EffectiveTestsAndRate ==
    apc = "done" =>
        /\ \A e \in encoderStats :
              /\ CountersAre(e.TotalTests, e.SuccessCount, e.CapacitySkips,
                             e.EffectiveTests, e.SuccessRate,
                             LAMBDA r : r.Encoder = e.Name)
              /\ \A dec \in DOMAIN e.ByDecoder :
                    LET b == e.ByDecoder[dec]
                    IN CountersAre(b.Tests, b.Successes, b.CapacitySkips,
                                   b.EffectiveTests, b.SuccessRate,
                                   LAMBDA r : r.Encoder = e.Name /\ r.Decoder = dec)
        /\ \A d \in decoderStats :
              /\ CountersAre(d.TotalTests, d.SuccessCount, d.CapacitySkips,
                             d.EffectiveTests, d.SuccessRate,
                             LAMBDA r : r.Decoder = d.Name)
              /\ \A enc \in DOMAIN d.ByEncoder :
                    LET b == d.ByEncoder[enc]
                    IN CountersAre(b.Tests, b.Successes, b.CapacitySkips,
                                   b.EffectiveTests, b.SuccessRate,
                                   LAMBDA r : r.Decoder = d.Name /\ r.Encoder = enc)
        /\ \A c \in combinations.Matrix :
              CountersAre(c.Tests, c.Successes, c.CapacitySkips,
                          c.EffectiveTests, c.SuccessRate,
                          LAMBDA r : r.Encoder = c.Encoder /\ r.Decoder = c.Decoder)
        /\ CountersAre(summary.TotalTests, summary.TotalSuccesses, summary.CapacitySkips,
                       summary.EffectiveTests, summary.OverallRate, LAMBDA r : TRUE)
        /\ { e.Name : e \in encoderStats } = { raw[i].Encoder : i \in 1..Len(raw) }
        /\ { d.Name : d \in decoderStats } = { raw[i].Decoder : i \in 1..Len(raw) }
        /\ { <<c.Encoder, c.Decoder>> : c \in combinations.Matrix } =
              { <<raw[i].Encoder, raw[i].Decoder>> : i \in 1..Len(raw) }

\* an encoder with no effective test (rate 0) next to one whose rate is 50%
C10_Witness ==
    /\ apc = "done"
    /\ \E e \in encoderStats :
          e.TotalTests > 0 /\ e.EffectiveTests = 0 /\ e.SuccessRate.num = 0
    /\ \E e \in encoderStats :
          e.EffectiveTests = 2 /\ e.CapacitySkips = 0 /\ e.SuccessCount = 1 /\
          e.SuccessRate = [num |-> 50, den |-> 1]
    /\ \E c \in combinations.Matrix : c.Tests > 0 /\ c.EffectiveTests = 0

\* the position in the loaded list of the first outcome of combination c
FirstSeen(c) ==
    CHOOSE i \in 1..Len(raw) :
        /\ raw[i].Encoder = c.Encoder /\ raw[i].Decoder = c.Decoder
        /\ \A j \in 1..(i - 1) :
              ~(raw[j].Encoder = c.Encoder /\ raw[j].Decoder = c.Decoder)

\* C12: Best is the combination with the highest success rate and, among
\* several with that rate, the one whose first outcome comes earliest in
\* the input list (so that one list has one Best).
C12_BestIsFirstSeenHighest ==
    apc = "done" =>
        \E c \in combinations.Matrix :
            /\ \A d \in combinations.Matrix : ~RateGT(d.SuccessRate, c.SuccessRate)
            /\ \A d \in combinations.Matrix :
                  d.SuccessRate = c.SuccessRate => FirstSeen(c) <= FirstSeen(d)
            /\ combinations.Best = [Encoder |-> c.Encoder,
                                    Decoder |-> c.Decoder,
                                    SuccessRate |-> c.SuccessRate]

---------------------------------------------------------------------------
(* Properties of hasNonMonotonicFailures *)

\* some data size has outcomes at pixel sizes p1 < p2 < p3 with p1
\* succeeding, p2 failing and p3 succeeding
SuccessFailureSuccess(rs) ==
    \E i, j, k \in 1..Len(rs) :
        /\ rs[i].DataSize = rs[j].DataSize /\ rs[j].DataSize = rs[k].DataSize
        /\ rs[i].PixelSize < rs[j].PixelSize /\ rs[j].PixelSize < rs[k].PixelSize
        /\ rs[i].Error = Nil /\ rs[j].Error # Nil /\ rs[k].Error = Nil

MonoReturned == arg # Nil /\ arg.fn = "hasNonMonotonicFailures" /\ out # Nil

\* C13: hasNonMonotonicFailures returns true whenever some data size has a
\* success, a failure and a success at increasing pixel sizes, adjacent in
\* the sorted outcomes or not.
C13_FlagsEveryPattern ==
    MonoReturned /\ SuccessFailureSuccess(arg.results) => out.value = TRUE

\* C14: hasNonMonotonicFailures returns true only if some data size has a
\* success, a failure and a success at strictly increasing pixel sizes;
\* outcomes sharing one pixel size never raise the flag by themselves.
C14_FlagsOnlyPattern ==
    MonoReturned /\ out.value = TRUE => SuccessFailureSuccess(arg.results)

---------------------------------------------------------------------------
(* Properties of the pipeline *)

\* the Runner's results the loaded record r was written from
WrittenFrom(r) ==
    { j \in 1..Len(ret.matrix.Results) :
        LET res == ret.matrix.Results[j]
        IN /\ res.EncoderName = r.Encoder
           /\ res.DecoderName = r.Decoder
           /\ res.DataSize = r.DataSize
           /\ res.PixelSize = r.PixelSize
           /\ res.ContentType = r.ContentType }

\* C11: an outcome the Runner marked IsCapacityExceeded is still marked so
\* in the record the aggregator loads, and the aggregator counts it in
\* capacitySkips and leaves it out of effectiveTests.
C11_CapacityFlagSurvives ==
    /\ apc \in {"loaded", "done"} =>
          \A i \in 1..Len(raw) : \A j \in WrittenFrom(raw[i]) :
              ret.matrix.Results[j].IsCapacityExceeded => raw[i].IsCapacityExceeded
    /\ apc = "done" =>
          \A e \in encoderStats :
              LET mine == { i \in 1..Len(raw) : raw[i].Encoder = e.Name }
                  skipped == { i \in mine : \E j \in WrittenFrom(raw[i]) :
                                   ret.matrix.Results[j].IsCapacityExceeded }
              IN /\ e.CapacitySkips = Cardinality(skipped)
                 /\ e.EffectiveTests = Cardinality(mine) - Cardinality(skipped)

\* C15: computeFailures counts an outcome in the fractional or in the
\* integer bucket only when its module geometry is known (QR version
\* determined); outcomes of unknown geometry and capacity-exceeded outcomes
\* are in neither bucket.
C15_BucketsNeedGeometry ==
    apc = "done" =>
        LET known == { i \in 1..Len(raw) :
                         raw[i].QRVersion > 0 /\ ~raw[i].IsCapacityExceeded }
        IN /\ failures.FractionalModule.Total =
                 Cardinality({ i \in known : raw[i].IsFractionalModule })
           /\ failures.IntegerModule.Total =
                 Cardinality({ i \in known : ~raw[i].IsFractionalModule })

\* C16: loadAllResults returns exactly one record for every (encoder,
\* decoder, test case) triple the reporter wrote; no triple that differs
\* from another in a test-case field is dropped.
C16_OneRecordPerTriple ==
    apc \in {"loaded", "done"} =>
        /\ Len(raw) = Len(ret.matrix.Results)
        /\ Len(raw) = Len(Encoders) * Len(Decoders) * Len(TestCases)

---------------------------------------------------------------------------
(* Properties of the module geometry functions *)

Returned(fn) == arg # Nil /\ arg.fn = fn /\ out # Nil

\* C17: CalculateModuleCount(version) is 17 + 4 * version for every version
\* from 1 to 40 and 0 for every version below 1 or above 40.
C17_ModuleCount ==
    Returned("CalculateModuleCount") =>
        /\ (arg.version >= 1 /\ arg.version <= 40) => out.value = 17 + 4 * arg.version
        /\ (arg.version < 1 \/ arg.version > 40) => out.value = 0

\* the last valid version
C17_Witness ==
    Returned("CalculateModuleCount") /\ arg.version = 40 /\ out.value = 177

\* C18: for moduleCount > 0 and quietZone >= 0 CalculateOptimalPixelSize
\* returns a positive multiple of moduleCount + quietZone that is >= 100
\* and whose module pixel size is not fractional; for moduleCount <= 0 or
\* quietZone < 0 it returns 0.
C18_OptimalIsIntegerMultiple ==
    Returned("CalculateOptimalPixelSize") =>
        IF arg.moduleCount > 0 /\ arg.quietZone >= 0
        THEN /\ out.value > 0
             /\ out.value >= 100
             /\ out.value % (arg.moduleCount + arg.quietZone) = 0
             /\ ~IsFractionalModuleSize(
                    CalculateModulePixelSize(out.value, arg.moduleCount, arg.quietZone))
        ELSE out.value = 0

\* version 15 with the standard quiet zone: 81 modules, 162 pixels
C18_Witness ==
    /\ Returned("CalculateOptimalPixelSize")
    /\ arg.moduleCount = 77 /\ arg.quietZone = QuietZoneModules
    /\ out.value = 162

\* C19: for moduleCount > 0 and quietZone >= 0 the value returned by
\* CalculateOptimalPixelSize is the smallest qualifying size: the next
\* smaller multiple is not positive or is below 100.
C19_OptimalIsSmallest ==
    Returned("CalculateOptimalPixelSize") /\ arg.moduleCount > 0 /\ arg.quietZone >= 0 =>
        LET smaller == out.value - (arg.moduleCount + arg.quietZone)
        IN smaller <= 0 \/ smaller < 100

\* version 1 with the standard quiet zone: 25 modules, and 100 is a multiple
C19_Witness ==
    /\ Returned("CalculateOptimalPixelSize")
    /\ arg.moduleCount = 21 /\ arg.quietZone = QuietZoneModules
    /\ out.value = 100

C25_OptionsFollowTestCase ==
    \A i \in 1..Len(results) :
        LET testCase == TestCases[resultTriple[i][1]]
        IN /\ EncodeOptionsFor(testCase).PixelSize = testCase.PixelSize
           /\ EncodeOptionsFor(testCase).ErrorCorrectionLevel = testCase.ErrorCorrectionLevel
           /\ results[i].ErrorCorrectionLevel = testCase.ErrorCorrectionLevel

\* the version probe of the triple t did not determine a version
ProbeFailed(t) ==
    LET v == DetectQRVersion(EncodeOf(t).img)
    IN v.err \/ v.version <= 0

\* C26: when DetectQRVersion returns an error or a non-positive version the
\* triple is not failed for it: the result keeps QRVersion -1, ModuleCount 0,
\* ModulePixelSize 0 and IsFractionalModule false, Decode is still called and
\* the outcome is the one Encode, Decode and the comparison give.
C26_ProbeFailureIsNotAnError ==
    \A i \in 1..Len(results) :
        LET t == resultTriple[i]
        IN (EncodeOf(t).status = "ok" /\ ProbeFailed(t)) =>
              /\ results[i].QRVersion = -1
              /\ results[i].ModuleCount = 0
              /\ results[i].ModulePixelSize.num = 0
              /\ ~results[i].IsFractionalModule
              /\ \E j \in 1..Len(decodeCalls) : decodeCalls[j] = t
              /\ Tag(results[i].Error) = ExpectedTag(t)

C26_Witness ==
    \E i \in 1..Len(results) :
        /\ EncodeOf(resultTriple[i]).status = "ok"
        /\ ProbeFailed(resultTriple[i])
        /\ results[i].Error = Nil
        /\ results[i].QRVersion = -1

\* the list s holds every value of the set S exactly once
ListsEachOnce(s, S) == Range(s) = S /\ Len(s) = Cardinality(S)

C28_CapacityOnlyOnEncodeError ==
    /\ \A i \in 1..Len(results) :
          results[i].IsCapacityExceeded => Tag(results[i].Error) = "EncodeError"
    /\ Completed =>
          \A i \in 1..Len(ret.matrix.Results) :
              ret.matrix.Results[i].IsCapacityExceeded =>
                  Tag(ret.matrix.Results[i].Error) = "EncodeError"

C28_Witness ==
    /\ Completed
    /\ \E i \in 1..Len(ret.matrix.Results) : ret.matrix.Results[i].IsCapacityExceeded
    /\ \E i \in 1..Len(ret.matrix.Results) :
          /\ Tag(ret.matrix.Results[i].Error) \in {"DecodeError", "DataMismatchError"}
          /\ ~ret.matrix.Results[i].IsCapacityExceeded

---------------------------------------------------------------------------
(* Properties of the aggregates of a run *)

\* the counters of one aggregate are consistent and its rate is a percentage
CountersConsistent(tests, successes, skips, effective, rate) ==
    /\ successes >= 0 /\ skips >= 0
    /\ successes + skips <= tests
    /\ effective = tests - skips
    /\ successes <= effective
    /\ rate.den > 0
    /\ 0 <= rate.num
    /\ rate.num <= 100 * rate.den

BreakdownConsistent(b) ==
    CountersConsistent(b.Tests, b.Successes, b.CapacitySkips, b.EffectiveTests,
                       b.SuccessRate)

StatsConsistent(e) ==
    CountersConsistent(e.TotalTests, e.SuccessCount, e.CapacitySkips, e.EffectiveTests,
                       e.SuccessRate)

\* C29: for the outcome list of a run, every aggregate (per encoder, per
\* decoder, per combination, overall) has successes + capacitySkips <= tests,
\* successes <= effectiveTests and a success rate between 0 and 100 percent.
C29_AggregatesWithinBounds ==
    apc = "done" =>
        /\ \A e \in encoderStats :
              /\ StatsConsistent(e)
              /\ \A d \in DOMAIN e.ByDecoder : BreakdownConsistent(e.ByDecoder[d])
        /\ \A d \in decoderStats :
              /\ StatsConsistent(d)
              /\ \A e \in DOMAIN d.ByEncoder : BreakdownConsistent(d.ByEncoder[e])
        /\ \A c \in combinations.Matrix : BreakdownConsistent(c)
        /\ combinations.Best.SuccessRate.num <= 100 * combinations.Best.SuccessRate.den
        /\ CountersConsistent(summary.TotalTests, summary.TotalSuccesses,
                              summary.CapacitySkips, summary.EffectiveTests,
                              summary.OverallRate)

C29_Witness ==
    /\ apc = "done"
    /\ Completed
    /\ Len(raw) = Len(ret.matrix.Results)
    /\ summary.TotalSuccesses >= 1
    /\ summary.TotalSuccesses < summary.EffectiveTests
    /\ \E e \in encoderStats : e.SuccessRate.num = 100 * e.SuccessRate.den
    /\ \E e \in encoderStats : e.SuccessRate.num = 0

\* C30: for a non-empty outcome list the Best combination names an (encoder,
\* decoder) pair that occurs in the list and no pair of the list has a higher
\* success rate, also when every pair's rate is 0.
C30_BestIsAPairOfTheList ==
    (apc = "done" /\ Len(raw) > 0) =>
        /\ <<combinations.Best.Encoder, combinations.Best.Decoder>> \in CombinationKeys(raw)
        /\ \A c \in combinations.Matrix :
              ~RateGT(c.SuccessRate, combinations.Best.SuccessRate)
        /\ summary.BestCombination = combinations.Best

---------------------------------------------------------------------------
(* Properties of the test-data generators *)

PayloadGenerators ==
    {"generateNumeric", "generateAlphanumeric", "generateUTF8", "generateBinary"}

\* a is the first Len(a) bytes of b
IsPrefix(a, b) == Len(a) <= Len(b) /\ \A i \in 1..Len(a) : a[i] = b[i]

\* C21: each payload generator is deterministic and prefix-consistent: for
\* sizes 0 <= m <= n what it returns for m is the first bytes of what it
\* returns for n, and for m = n the two payloads are byte-identical.
C21_PrefixConsistent ==
    (arg # Nil /\ out # Nil /\ arg.fn \in PayloadGenerators /\ 0 <= arg.m) =>
        /\ IsPrefix(out.short, out.long)
        /\ arg.m = arg.n => out.short = out.long

C21_Witness ==
    /\ arg # Nil /\ out # Nil
    /\ arg.fn = "generateBinary"
    /\ arg.m = 5 /\ arg.n = 12
    /\ Len(out.short) = 5 /\ Len(out.long) = 12
    /\ out.short = SubSeq(out.long, 1, 5)

GridGenerators ==
    {"GeneratePixelSizeMatrix", "GenerateComprehensiveMatrix", "GenerateEdgeCases"}

\* C22: every TestCase the three grid generators return has DataSize equal
\* to the byte length of its Data.
C22_DataSizeIsLength ==
    (arg # Nil /\ out # Nil /\ arg.fn \in GridGenerators) =>
        \A k \in 1..Len(out.cases) : out.cases[k].DataSize = Len(out.cases[k].Data)

\* the bytes p are the first bytes of the sample text repeated
IsSampleText(p) == \A i \in 1..Len(p) : p[i] = Pattern[((i - 1) % Len(Pattern)) + 1]

\* C23: for every size >= 0, generateUTF8(size) returns valid UTF-8 (no
\* multi-byte character of the sample text is split) of at most size bytes,
\* and its truncation loop ends: it removes fewer bytes than the longest
\* character has.
C23_ValidUTF8WithinSize ==
    /\ (arg # Nil /\ out # Nil /\ arg.fn = "generateUTF8" /\ arg.n >= 0) =>
          /\ utf8Valid(out.long)
          /\ IsSampleText(out.long)
          /\ Len(out.long) <= arg.n
          /\ arg.n - Len(out.long) < 4
          /\ ~utf8Continuation(Pattern[(Len(out.long) % Len(Pattern)) + 1])
    /\ (arg # Nil /\ out # Nil /\ arg.fn = "GenerateComprehensiveMatrix") =>
          \A k \in 1..Len(out.cases) :
              out.cases[k].ContentType = ContentUTF8 =>
                  /\ utf8Valid(out.cases[k].Data)
                  /\ Len(out.cases[k].Data) <= out.cases[k].DataSize
                  /\ out.cases[k].DataSize - Len(out.cases[k].Data) < 4

C23_Witness ==
    /\ arg # Nil /\ out # Nil
    /\ arg.fn = "generateUTF8"
    /\ arg.n = 7
    /\ out.long = <<72, 101, 108, 108, 111>>

\* the combination a TestCase was generated for
Combination(c) == <<c.DataSize, c.PixelSize, c.ContentType, c.ErrorCorrectionLevel>>

\* the combinations of a grid's dimension lists
Combinations(dims) ==
    Range(dims.dataSizes) \X Range(dims.pixelSizes)
        \X Range(dims.contentTypes) \X Range(dims.errorLevels)

\* the list cases has exactly one TestCase for every combination of dims
OnePerCombination(cases, dims) ==
    /\ { Combination(cases[k]) : k \in 1..Len(cases) } = Combinations(dims)
    /\ Len(cases) = Cardinality(Combinations(dims))

====
